---- MODULE Spec2Model ----
(***************************************************************************)
(* Model of marketing-campaign-agent/agent.py: the image tool              *)
(* generate_campaign_image (prompt composition, truncation, the call to    *)
(* the image service, the file written under output/, the artifact         *)
(* registration, the returned dictionary), the report tool                 *)
(* generate_campaign_report, and the five-step process that root_agent's   *)
(* instruction lays down.                                                  *)
(*                                                                         *)
(* Texts.  A Python str is modelled as a sequence of segments, each a run  *)
(* of characters lo..hi of a named source text, so that len(), slicing     *)
(* and concatenation are computed position by position.  The content of    *)
(* the caller's texts is opaque; their lengths are what the code reads.    *)
(***************************************************************************)
EXTENDS Integers, Sequences, FiniteSets, TLC

----------------------------------------------------------------------------
(* Bounds of the model *)

\* longest visual_brief, in characters
MaxBriefLen == 2010
\* longest image_prompt, in characters
MaxExtraLen == 2
\* invocations of generate_campaign_image over a behaviour
MaxInvocations == 2
\* last value of the wall clock, in ticks
MaxClock == 2
\* clock ticks per second of wall-clock time
TicksPerSecond == 2

(* Program constants *)

\* len(imagen_prompt) > 2000
PromptCeiling == 2000
\* imagen_prompt[:1900]
KeepLen == 1900
\* characters of the template before {final_prompt}
HeadLen == 93
\* characters of the template after {final_prompt}
TailLen == 4532
\* len("\n\nHigh-quality professional marketing image.")
ClauseLen == 44
\* len("\n\nAdditional Details: ")
SepLen == 22
\* file_size / 1024
BytesPerKb == 1024

----------------------------------------------------------------------------
(* Texts *)

Piece(src, n) == IF n = 0 THEN <<>> ELSE <<[src |-> src, lo |-> 1, hi |-> n]>>

SegLen(s) == s.hi - s.lo + 1

RECURSIVE TextLen(_)
TextLen(t) == IF t = <<>> THEN 0 ELSE SegLen(Head(t)) + TextLen(Tail(t))

\* t[:n]
RECURSIVE Take(_, _)
Take(t, n) ==
    IF n <= 0 \/ t = <<>> THEN <<>>
    ELSE IF SegLen(Head(t)) <= n
         THEN <<Head(t)>> \o Take(Tail(t), n - SegLen(Head(t)))
         ELSE <<[Head(t) EXCEPT !.hi = Head(t).lo + n - 1]>>

----------------------------------------------------------------------------
(* The prompt sent to the image service *)

PromptHead == Piece("template_head", HeadLen)
PromptTail == Piece("template_directives", TailLen)
ClosingClause == Piece("closing_clause", ClauseLen)
DetailsSep == Piece("additional_details", SepLen)

FinalPrompt(visual_brief, image_prompt) ==
    IF image_prompt # <<>>
    THEN visual_brief \o DetailsSep \o image_prompt
    ELSE visual_brief

\* variant: {final_prompt} placed at the end of the template
ComposePrompt_BriefLast(visual_brief, image_prompt) ==
    PromptHead \o PromptTail \o FinalPrompt(visual_brief, image_prompt)

ComposePrompt(visual_brief, image_prompt) ==
    PromptHead \o FinalPrompt(visual_brief, image_prompt) \o PromptTail

\* variant: slices at the ceiling instead of at 1900
TruncatePrompt_KeepCeiling(prompt) ==
    IF TextLen(prompt) > PromptCeiling
    THEN Take(prompt, PromptCeiling) \o ClosingClause
    ELSE prompt

TruncatePrompt(prompt) ==
    IF TextLen(prompt) > PromptCeiling
    THEN Take(prompt, KeepLen) \o ClosingClause
    ELSE prompt

----------------------------------------------------------------------------
(* The dictionaries generate_campaign_image returns.  A message is the     *)
(* sequence of its fixed fragments and interpolated values.                *)

\* f"{file_size / 1024:.1f}", in tenths of a kilobyte, ties to even
KbTenths(file_size) ==
    LET q == (file_size * 10) \div BytesPerKb
        r == (file_size * 10) % BytesPerKb
    IN  IF 2 * r > BytesPerKb \/ (2 * r = BytesPerKb /\ q % 2 = 1)
        THEN q + 1 ELSE q

\* a fixed fragment of a message
Lit(s) == [lit |-> s]

ManualCreationNote ==
    "**Note:** The campaign can still be completed without the image. The visual brief provides detailed specifications for manual creation."

ConfigMissingResult ==
    [status |-> "error",
     message |-> <<Lit("GOOGLE_API_KEY not found in environment variables")>>,
     instructions |-> <<Lit("Please set GOOGLE_API_KEY to use image generation")>>]

NoImageResult ==
    [status |-> "error",
     step |-> "image_generation_failed",
     message |-> <<Lit("No images were generated by Imagen. Try refining the visual brief or check API quotas.")>>]

ImportErrorResult(e) ==
    [status |-> "error",
     step |-> "import_error",
     message |-> <<Lit("Failed to import required libraries: "), [text |-> e],
                   Lit("Please install: pip install google-genai Pillow")>>]

GenerationErrorResult(e) ==
    [status |-> "error",
     step |-> "image_generation_error",
     error |-> e,
     message |-> <<Lit("Image generation failed: "), [text |-> e],
                   Lit("This may be due to API quotas, billing setup, or prompt content. Check Google Cloud Console for details."),
                   Lit(ManualCreationNote)>>]

SuccessResult(image_path, image_filename, size, file_size) ==
    [status |-> "success",
     step |-> "image_generation_complete",
     image_path |-> image_path,
     image_filename |-> image_filename,
     dimensions |-> size,
     file_size_kb |-> KbTenths(file_size),
     message |-> <<Lit("Campaign image successfully generated!"),
                   Lit("Dimensions: "), [dims |-> size], Lit(" pixels"),
                   Lit("File Size: "), [kb |-> KbTenths(file_size)], Lit(" KB"),
                   Lit("Saved to: "), [path |-> image_path],
                   Lit("Artifact available for download: "), [name |-> image_filename],
                   Lit("The high-quality marketing image has been generated and saved."),
                   Lit("You can find the image file in the output directory for use in your marketing campaign.")>>]

\* variant: except Exception placed first, so it takes every error
HandleException_ExceptionFirst(cls, e) == GenerationErrorResult(e)

\* the except clauses of generate_campaign_image, in their order
HandleException(cls, e) ==
    IF cls = "ImportError" THEN ImportErrorResult(e) ELSE GenerationErrorResult(e)

\* the outcome variant a returned dictionary stands for
Kind(r) ==
    IF r.status = "success" THEN "Success"
    ELSE IF "step" \notin DOMAIN r THEN "ConfigMissing"
    ELSE IF r.step = "import_error" THEN "ImportMissing"
    ELSE IF r.step = "image_generation_failed" THEN "NoImageReturned"
    ELSE "SynthesisError"

----------------------------------------------------------------------------
(* State *)

VARIABLES
    env,        \* the process environment: GOOGLE_API_KEY, importable libraries
    fs,         \* the file system: whether output/ exists, the files under it
    artifacts,  \* what tool_context.save_artifact has registered
    clock,      \* the wall clock, in ticks
    svc,        \* the requests the image service has received, in order
    inv,        \* per caller, the frame of its generate_campaign_image call
    ninv,       \* invocations started so far
    reported,   \* the Success dictionaries returned so far, with their image
    run         \* the agent's run of the five-step process

vars == <<env, fs, artifacts, clock, svc, inv, ninv, reported, run>>

\* the agent calls its tools one at a time: a single thread of control
Procs == {1}

\* os.getenv('GOOGLE_API_KEY'): None ("unset"), empty, or a key
ApiKeys == {"unset", "", "key"}
Truthy(api_key) == api_key \notin {"unset", ""}

\* str(e) of the errors the environment raises
ErrTexts == {"", "quota exceeded"}
ImportErrText == "No module named 'PIL'"
OsErrText == "Permission denied"
DecodeErrText == "cannot identify image file"
ClientErrText == "invalid client options"

\* the images a response to request number call may hold
ServiceImages(call) ==
    {[call |-> call, idx |-> 1, decodable |-> d, size |-> <<2, 2>>, png |-> 256] :
        d \in BOOLEAN}
Responses(call) ==
    {<<>>} \cup {<<i>> : i \in ServiceImages(call)}
           \cup {<<i, [i EXCEPT !.idx = 2]>> : i \in {j \in ServiceImages(call) : j.decodable}}

NoResult == [status |-> "none"]
NoException == [cls |-> "none", text |-> ""]
\* the classes the except clauses catch: ImportError, then Exception
CaughtClasses == {"ImportError", "Exception"}
NoImage == [call |-> 0, idx |-> 0, decodable |-> FALSE, size |-> <<0, 0>>, png |-> 0]

IdleFrame ==
    [pc |-> "idle", id |-> 0,
     visual_brief |-> <<>>, image_prompt |-> <<>>, imagen_prompt |-> <<>>,
     response |-> <<>>, stamped |-> 0, timestamp |-> 0, image_filename |-> <<>>,
     image_path |-> <<>>, image |-> NoImage,
     raised |-> NoException, events |-> {}, result |-> NoResult]

\* variant: "%Y%m%d_%H%M", the seconds left out of the format
Timestamp_Minutes(t) == t \div (TicksPerSecond * 60)

\* datetime.now().strftime("%Y%m%d_%H%M%S"): the clock cut to whole seconds
Timestamp(t) == t \div TicksPerSecond
ImageFilename(timestamp) == <<"campaign_image_", timestamp, ".png">>
\* os.path.join(output_dir, image_filename)
ImagePath(image_filename) == <<"output", image_filename>>

FileAt(path) == {f \in fs.files : f.path = path}
WriteFile(files, path, image, complete) ==
    {f \in files : f.path # path}
        \cup {[path |-> path, image |-> image, complete |-> complete]}

\* a return statement
ReturnWith(f, r) == [f EXCEPT !.pc = "returned", !.result = r]
\* an exception raised inside the try block
Raise(f, cls, e) ==
    IF cls \in CaughtClasses
    THEN ReturnWith([f EXCEPT !.raised = [cls |-> cls, text |-> e]], HandleException(cls, e))
    ELSE [f EXCEPT !.pc = "escaped", !.raised = [cls |-> cls, text |-> e]]

----------------------------------------------------------------------------
(* generate_campaign_image, statement by statement *)

BriefSamples == {<<>>, Piece("VisualBrief", MaxBriefLen)}
ExtraSamples == {<<>>, Piece("image_prompt", MaxExtraLen)}

Invoke(p) ==
    /\ inv[p].pc = "idle"
    /\ run.stage = "Free"
    /\ ninv < MaxInvocations
    /\ \E b \in BriefSamples, x \in ExtraSamples :
          inv' = [inv EXCEPT ![p] = [IdleFrame EXCEPT !.pc = "import", !.id = ninv + 1,
                                        !.visual_brief = b, !.image_prompt = x]]
    /\ ninv' = ninv + 1
    /\ UNCHANGED <<env, fs, artifacts, clock, svc, reported, run>>

\* from google import genai ... from datetime import datetime
Import(p) ==
    /\ inv[p].pc = "import"
    /\ inv' = [inv EXCEPT ![p] =
                 IF env.libs THEN [@ EXCEPT !.pc = "getkey"]
                 ELSE Raise(@, "ImportError", ImportErrText)]
    /\ UNCHANGED <<env, fs, artifacts, clock, svc, ninv, reported, run>>

\* variant: the missing key is not checked before going on
GetKey_NoEarlyReturn(p) ==
    /\ inv[p].pc = "getkey"
    /\ inv' = [inv EXCEPT ![p] = [@ EXCEPT !.pc = "client"]]
    /\ UNCHANGED <<env, fs, artifacts, clock, svc, ninv, reported, run>>

\* api_key = os.getenv(...); if not api_key: return {...}
GetKey(p) ==
    /\ inv[p].pc = "getkey"
    /\ inv' = [inv EXCEPT ![p] =
                 IF Truthy(env.api_key) THEN [@ EXCEPT !.pc = "client"]
                 ELSE ReturnWith(@, ConfigMissingResult)]
    /\ UNCHANGED <<env, fs, artifacts, clock, svc, ninv, reported, run>>

\* client = genai.Client(api_key=api_key): built, or the constructor raises
NewClient(p) ==
    /\ inv[p].pc = "client"
    /\ \/ inv' = [inv EXCEPT ![p] = [@ EXCEPT !.pc = "compose"]]
       \/ inv' = [inv EXCEPT ![p] =
                    Raise([@ EXCEPT !.events = @ \cup {"client_error"}],
                          "Exception", ClientErrText)]
    /\ UNCHANGED <<env, fs, artifacts, clock, svc, ninv, reported, run>>

\* imagen_prompt = f"""...{final_prompt}..."""
Compose(p) ==
    /\ inv[p].pc = "compose"
    /\ inv' = [inv EXCEPT ![p] =
                 [@ EXCEPT !.pc = "truncate",
                           !.imagen_prompt = ComposePrompt(inv[p].visual_brief, inv[p].image_prompt)]]
    /\ UNCHANGED <<env, fs, artifacts, clock, svc, ninv, reported, run>>

\* if len(imagen_prompt) > 2000: imagen_prompt = imagen_prompt[:1900] + "..."
Truncate(p) ==
    /\ inv[p].pc = "truncate"
    /\ inv' = [inv EXCEPT ![p] =
                 [@ EXCEPT !.pc = "call",
                           !.imagen_prompt = TruncatePrompt(inv[p].imagen_prompt)]]
    /\ UNCHANGED <<env, fs, artifacts, clock, svc, ninv, reported, run>>

\* client.models.generate_images(...): the request goes out
CallService(p) ==
    /\ inv[p].pc = "call"
    /\ svc' = Append(svc, [id |-> inv[p].id, prompt |-> inv[p].imagen_prompt])
    /\ inv' = [inv EXCEPT ![p] = [@ EXCEPT !.pc = "await",
                                            !.events = @ \cup {"service_call"}]]
    /\ UNCHANGED <<env, fs, artifacts, clock, ninv, reported, run>>

\* the request of frame f in the service's log
CallNo(f) == CHOOSE n \in 1..Len(svc) : svc[n].id = f.id

\* ... the call returns a response
ServiceReturns(p) ==
    /\ inv[p].pc = "await"
    /\ \E r \in Responses(CallNo(inv[p])) :
          inv' = [inv EXCEPT ![p] =
                    [@ EXCEPT !.pc = "check", !.response = r,
                              !.events = @ \cup {"service_returned"}]]
    /\ UNCHANGED <<env, fs, artifacts, clock, svc, ninv, reported, run>>

\* variant: a raised error is answered by calling the service again
ServiceRaises_Retry(p) ==
    /\ inv[p].pc = "await"
    /\ Cardinality({n \in 1..Len(svc) : svc[n].id = inv[p].id}) < 2
    /\ inv' = [inv EXCEPT ![p] = [@ EXCEPT !.pc = "call"]]
    /\ UNCHANGED <<env, fs, artifacts, clock, svc, ninv, reported, run>>

\* ... or raises
ServiceRaises(p) ==
    /\ inv[p].pc = "await"
    /\ \E cls \in {"ImportError", "Exception"}, e \in ErrTexts :
          inv' = [inv EXCEPT ![p] =
                    Raise([@ EXCEPT !.events = @ \cup {"service_raised"}], cls, e)]
    /\ UNCHANGED <<env, fs, artifacts, clock, svc, ninv, reported, run>>

\* variant: an empty response leaves a placeholder file behind
CheckResponse_Placeholder(p) ==
    /\ inv[p].pc = "check"
    /\ IF inv[p].response # <<>> /\ Len(inv[p].response) > 0
       THEN /\ inv' = [inv EXCEPT ![p] = [@ EXCEPT !.pc = "makedirs",
                                                    !.image = inv[p].response[1]]]
            /\ UNCHANGED fs
       ELSE /\ inv' = [inv EXCEPT ![p] = ReturnWith(@, NoImageResult)]
            /\ fs' = [dir |-> TRUE,
                      files |-> WriteFile(fs.files,
                                          ImagePath(ImageFilename(Timestamp(clock))),
                                          [NoImage EXCEPT !.call = CallNo(inv[p])], FALSE)]
    /\ UNCHANGED <<env, artifacts, clock, svc, ninv, reported, run>>

\* if response.generated_images and len(response.generated_images) > 0: ... else: return {...}
CheckResponse(p) ==
    /\ inv[p].pc = "check"
    /\ inv' = [inv EXCEPT ![p] =
                 IF inv[p].response # <<>> /\ Len(inv[p].response) > 0
                 THEN [@ EXCEPT !.pc = "makedirs", !.image = inv[p].response[1]]
                 ELSE ReturnWith(@, NoImageResult)]
    /\ UNCHANGED <<env, fs, artifacts, clock, svc, ninv, reported, run>>

\* os.makedirs(output_dir, exist_ok=True)
MakeDirs(p) ==
    /\ inv[p].pc = "makedirs"
    /\ \/ /\ fs' = [fs EXCEPT !.dir = TRUE]
          /\ inv' = [inv EXCEPT ![p] =
                       [@ EXCEPT !.pc = "stamp",
                                 !.events = IF fs.dir THEN @ ELSE @ \cup {"directory"}]]
       \/ /\ ~fs.dir
          /\ inv' = [inv EXCEPT ![p] = Raise(@, "Exception", OsErrText)]
          /\ UNCHANGED fs
    /\ UNCHANGED <<env, artifacts, clock, svc, ninv, reported, run>>

\* timestamp = datetime.now().strftime(...); image_filename; image_path
Stamp(p) ==
    /\ inv[p].pc = "stamp"
    /\ inv' = [inv EXCEPT ![p] =
                 [@ EXCEPT !.pc = "open",
                           !.stamped = clock,
                           !.timestamp = Timestamp(clock),
                           !.image_filename = ImageFilename(Timestamp(clock)),
                           !.image_path = ImagePath(ImageFilename(Timestamp(clock)))]]
    /\ UNCHANGED <<env, fs, artifacts, clock, svc, ninv, reported, run>>

\* image_bytes = generated_image.image.image_bytes; image = Image.open(BytesIO(image_bytes))
OpenImage(p) ==
    /\ inv[p].pc = "open"
    /\ inv' = [inv EXCEPT ![p] =
                 IF inv[p].image.decodable THEN [@ EXCEPT !.pc = "save"]
                 ELSE Raise(@, "Exception", DecodeErrText)]
    /\ UNCHANGED <<env, fs, artifacts, clock, svc, ninv, reported, run>>

\* variant: the file is left unflushed, cut short, and no error is raised
SaveImage_Unflushed(p) ==
    /\ inv[p].pc = "save"
    /\ fs' = [fs EXCEPT !.files = WriteFile(@, inv[p].image_path, inv[p].image, FALSE)]
    /\ inv' = [inv EXCEPT ![p] = [@ EXCEPT !.pc = "artifact", !.events = @ \cup {"file"}]]
    /\ UNCHANGED <<env, artifacts, clock, svc, ninv, reported, run>>

\* image.save(image_path, format='PNG'): written, or an OSError before or while writing
SaveImage(p) ==
    /\ inv[p].pc = "save"
    /\ \/ /\ fs' = [fs EXCEPT !.files = WriteFile(@, inv[p].image_path, inv[p].image, TRUE)]
          /\ inv' = [inv EXCEPT ![p] = [@ EXCEPT !.pc = "artifact",
                                                  !.events = @ \cup {"file"}]]
       \/ /\ fs' = [fs EXCEPT !.files = WriteFile(@, inv[p].image_path, inv[p].image, FALSE)]
          /\ inv' = [inv EXCEPT ![p] =
                       Raise([@ EXCEPT !.events = @ \cup {"file"}], "Exception", OsErrText)]
       \/ /\ UNCHANGED fs
          /\ inv' = [inv EXCEPT ![p] = Raise(@, "Exception", OsErrText)]
    /\ UNCHANGED <<env, artifacts, clock, svc, ninv, reported, run>>

\* variant: no try around the registration, its error reaches the outer handler
SaveArtifact_Propagates(p) ==
    /\ inv[p].pc = "artifact"
    /\ \/ /\ artifacts' = artifacts \cup
                {[filename |-> inv[p].image_filename,
                  data |-> [call |-> inv[p].image.call, idx |-> inv[p].image.idx]]}
          /\ inv' = [inv EXCEPT ![p] = [@ EXCEPT !.pc = "getsize",
                                                  !.events = @ \cup {"artifact"}]]
       \/ /\ UNCHANGED artifacts
          /\ inv' = [inv EXCEPT ![p] =
                       Raise([@ EXCEPT !.events = @ \cup {"artifact_error"}],
                             "Exception", OsErrText)]
    /\ UNCHANGED <<env, fs, clock, svc, ninv, reported, run>>

\* try: Blob(...); tool_context.save_artifact(...) except Exception: print(...)
SaveArtifact(p) ==
    /\ inv[p].pc = "artifact"
    /\ \/ /\ artifacts' = artifacts \cup
                {[filename |-> inv[p].image_filename,
                  data |-> [call |-> inv[p].image.call, idx |-> inv[p].image.idx]]}
          /\ inv' = [inv EXCEPT ![p] = [@ EXCEPT !.pc = "getsize",
                                                  !.events = @ \cup {"artifact"}]]
       \/ /\ UNCHANGED artifacts
          /\ inv' = [inv EXCEPT ![p] = [@ EXCEPT !.pc = "getsize",
                                                  !.events = @ \cup {"artifact_error"}]]
    /\ UNCHANGED <<env, fs, clock, svc, ninv, reported, run>>

\* width, height = image.size; file_size = os.path.getsize(image_path); return {...}
GetSize(p) ==
    /\ inv[p].pc = "getsize"
    /\ \/ \E f \in FileAt(inv[p].image_path) :
            LET r == SuccessResult(inv[p].image_path, inv[p].image_filename,
                                   inv[p].image.size, f.image.png)
            IN  /\ inv' = [inv EXCEPT ![p] = ReturnWith(@, r)]
                /\ reported' = reported \cup
                      {[id |-> inv[p].id, stamped |-> inv[p].stamped, result |-> r,
                        image |-> [call |-> inv[p].image.call, idx |-> inv[p].image.idx]]}
       \/ /\ inv' = [inv EXCEPT ![p] =
                       Raise([@ EXCEPT !.events = @ \cup {"getsize_error"}],
                             "Exception", OsErrText)]
          /\ UNCHANGED reported
    /\ UNCHANGED <<env, fs, artifacts, clock, svc, ninv, run>>

\* the caller takes the returned dictionary
Return(p) ==
    /\ inv[p].pc = "returned"
    /\ run.stage = "Free"
    /\ inv' = [inv EXCEPT ![p] = IdleFrame]
    /\ UNCHANGED <<env, fs, artifacts, clock, svc, ninv, reported, run>>

\* wall-clock time passes
Tick ==
    /\ clock < MaxClock
    /\ clock' = clock + 1
    /\ UNCHANGED <<env, fs, artifacts, svc, inv, ninv, reported, run>>

ToolStep(p) ==
    \/ Import(p) \/ GetKey(p) \/ NewClient(p) \/ Compose(p) \/ Truncate(p)
    \/ CallService(p) \/ CheckResponse(p) \/ MakeDirs(p) \/ Stamp(p) \/ OpenImage(p) \/ SaveImage(p)
    \/ SaveArtifact(p) \/ GetSize(p)

ServiceStep(p) == ServiceReturns(p) \/ ServiceRaises(p)

----------------------------------------------------------------------------
(* The four tools that only build an instruction payload.  The           *)
(* instructions are the template's interpolated values, by placeholder.  *)

analyze_market_strategy(product_service, target_audience, key_differentiator) ==
    [status |-> "success",
     step |-> "market_strategy_analysis",
     instructions |-> [product_service |-> product_service,
                       target_audience |-> target_audience,
                       key_differentiator |-> key_differentiator]]

generate_taglines(product_service, target_audience, key_differentiator, strategy_context) ==
    [status |-> "success",
     step |-> "tagline_generation",
     instructions |-> [product_service |-> product_service,
                       target_audience |-> target_audience,
                       key_differentiator |-> key_differentiator,
                       strategy_context |-> strategy_context]]

SelectionText(tagline, all_taglines) ==
    IF all_taglines # <<>> /\ tagline = <<>>
    THEN <<Lit("**Available Taglines:**")>> \o all_taglines
           \o <<Lit("First, SELECT the single best tagline from the list above.")>>
    ELSE IF tagline # <<>>
         THEN <<Lit("**Selected Tagline:** ")>> \o tagline
         ELSE <<>>

develop_visual_concept(product_service, target_audience, tagline, all_taglines) ==
    [status |-> "success",
     step |-> "visual_concept_development",
     instructions |-> [product_service |-> product_service,
                       target_audience |-> target_audience,
                       selection_text |-> SelectionText(tagline, all_taglines)]]

\* {x if x else "[placeholder]"}
OrElse(text, placeholder) == IF text # <<>> THEN text ELSE <<Lit(placeholder)>>

StrategyPlaceholder == "[To be filled with strategy analysis]"
TaglinesPlaceholder == "[To be filled with 5 taglines and justifications]"
VisualPlaceholder == "[To be filled with selected tagline and visual brief]"
ImagePlaceholder == "[Image generation status]"

generate_campaign_report(product_service, target_audience, key_differentiator, strategy, taglines, visual_concept, image_status) ==
    [status |-> "success",
     step |-> "report_generation",
     instructions |->
        [title |-> "# Marketing Campaign - Final Deliverable",
         product_service |-> product_service,
         target_audience |-> target_audience,
         key_differentiator |-> key_differentiator,
         market_strategy |-> OrElse(strategy, StrategyPlaceholder),
         taglines_generated |-> OrElse(taglines, TaglinesPlaceholder),
         visual_brief |-> OrElse(visual_concept, VisualPlaceholder),
         campaign_image |-> OrElse(image_status, ImagePlaceholder)]]

----------------------------------------------------------------------------
(* root_agent: the process its instruction lays down, steps 1 to 5.  The  *)
(* reasoning engine's answer to a payload is an opaque text; what the     *)
(* agent has gathered so far is ctx, keyed by step.                       *)

StageOrder == <<"Strategy", "Taglines", "VisualBrief", "Image", "Report">>
StageNo(stage) == CHOOSE k \in 1..Len(StageOrder) : StageOrder[k] = stage

\* variant: the image step is passed over
StageAfter_SkipsImage(stage) ==
    IF stage = "VisualBrief" THEN "Report"
    ELSE IF StageNo(stage) < Len(StageOrder) THEN StageOrder[StageNo(stage) + 1] ELSE "Done"

\* "Execute ALL steps sequentially - each builds on the previous"
StageAfter(stage) ==
    IF StageNo(stage) < Len(StageOrder) THEN StageOrder[StageNo(stage) + 1] ELSE "Done"

\* lengths of the texts the reasoning engine may answer with
AnswerLens == {0, MaxBriefLen}
Answer(stage, n) == Piece(stage, n)

CampaignBriefs ==
    {[product_service |-> Piece("product_service", n),
      target_audience |-> Piece("target_audience", n),
      key_differentiator |-> Piece("key_differentiator", n)] : n \in {0, 1}}

NoPayload == [status |-> "none"]
FreeRun ==
    [stage |-> "Free", brief |-> CHOOSE b \in CampaignBriefs : b.product_service = <<>>,
     ctx |-> <<>>, trace |-> <<>>, reads |-> {}, image_outcome |-> NoResult,
     report |-> NoPayload]

\* the entry of step key, empty when nothing was gathered for it
Gathered(key) == IF key \in DOMAIN run.ctx THEN run.ctx[key] ELSE <<>>

\* the agent runs a text step: calls the tool, takes the engine's answer, moves on
Advance(stage, readkeys, text) ==
    run' = [run EXCEPT !.stage = StageAfter(stage),
                       !.ctx = (stage :> text) @@ @,
                       !.trace = Append(@, stage),
                       !.reads = @ \cup {<<stage, k>> : k \in readkeys}]

\* 1: "Use analyze_market_strategy tool with the product, audience, and differentiator"
RunStrategy ==
    /\ run.stage = "Strategy"
    /\ analyze_market_strategy(run.brief.product_service, run.brief.target_audience,
                               run.brief.key_differentiator).status = "success"
    /\ \E n \in AnswerLens : Advance("Strategy", {}, Answer("Strategy", n))
    /\ UNCHANGED <<env, fs, artifacts, clock, svc, inv, ninv, reported>>

\* 2: "Use generate_taglines tool with the campaign details and strategy insights"
RunTaglines ==
    /\ run.stage = "Taglines"
    /\ generate_taglines(run.brief.product_service, run.brief.target_audience,
                         run.brief.key_differentiator, Gathered("Strategy")).status = "success"
    /\ \E n \in AnswerLens : Advance("Taglines", {"Strategy"}, Answer("Taglines", n))
    /\ UNCHANGED <<env, fs, artifacts, clock, svc, inv, ninv, reported>>

\* 3: "Use develop_visual_concept tool with all taglines"
RunVisualBrief ==
    /\ run.stage = "VisualBrief"
    /\ develop_visual_concept(run.brief.product_service, run.brief.target_audience,
                              <<>>, Gathered("Taglines")).status = "success"
    /\ \E n \in AnswerLens : Advance("VisualBrief", {"Taglines"}, Answer("VisualBrief", n))
    /\ UNCHANGED <<env, fs, artifacts, clock, svc, inv, ninv, reported>>

\* 4: "Use generate_campaign_image tool with the complete visual brief"
StartImage(p) ==
    /\ run.stage = "Image"
    /\ "Image" \notin {run.trace[k] : k \in 1..Len(run.trace)}
    /\ inv[p].pc = "idle"
    /\ ninv < MaxInvocations
    /\ \E x \in ExtraSamples :
          inv' = [inv EXCEPT ![p] = [IdleFrame EXCEPT !.pc = "import", !.id = ninv + 1,
                                        !.visual_brief = Gathered("VisualBrief"),
                                        !.image_prompt = x]]
    /\ ninv' = ninv + 1
    /\ run' = [run EXCEPT !.trace = Append(@, "Image"),
                          !.reads = @ \cup {<<"Image", "VisualBrief">>}]
    /\ UNCHANGED <<env, fs, artifacts, clock, svc, reported>>

\* variant: the run goes on only when the image was generated
FinishImage_HaltsOnFailure(p) ==
    /\ run.stage = "Image"
    /\ inv[p].pc = "returned"
    /\ inv[p].result.status = "success"
    /\ run' = [run EXCEPT !.stage = StageAfter("Image"),
                          !.image_outcome = inv[p].result,
                          !.ctx = ("Image" :> inv[p].result.message) @@ @]
    /\ inv' = [inv EXCEPT ![p] = IdleFrame]
    /\ UNCHANGED <<env, fs, artifacts, clock, svc, ninv, reported>>

\* variant: a failure is gathered as an empty image status
FinishImage_DropsFailure(p) ==
    /\ run.stage = "Image"
    /\ inv[p].pc = "returned"
    /\ run' = [run EXCEPT !.stage = StageAfter("Image"),
                          !.image_outcome = inv[p].result,
                          !.ctx = ("Image" :> IF inv[p].result.status = "success"
                                              THEN inv[p].result.message ELSE <<>>) @@ @]
    /\ inv' = [inv EXCEPT ![p] = IdleFrame]
    /\ UNCHANGED <<env, fs, artifacts, clock, svc, ninv, reported>>

\* the tool's dictionary comes back; its message is the image status from here on
FinishImage(p) ==
    /\ run.stage = "Image"
    /\ inv[p].pc = "returned"
    /\ run' = [run EXCEPT !.stage = StageAfter("Image"),
                          !.image_outcome = inv[p].result,
                          !.ctx = ("Image" :> inv[p].result.message) @@ @]
    /\ inv' = [inv EXCEPT ![p] = IdleFrame]
    /\ UNCHANGED <<env, fs, artifacts, clock, svc, ninv, reported>>

\* 5: "Use generate_campaign_report tool with all gathered information"
RunReport ==
    /\ run.stage = "Report"
    /\ run' = [run EXCEPT
                 !.stage = StageAfter("Report"),
                 !.trace = Append(@, "Report"),
                 !.reads = @ \cup {<<"Report", k>> :
                                      k \in {"Strategy", "Taglines", "VisualBrief", "Image"}},
                 !.report = generate_campaign_report(
                                run.brief.product_service, run.brief.target_audience,
                                run.brief.key_differentiator,
                                Gathered("Strategy"), Gathered("Taglines"),
                                Gathered("VisualBrief"), Gathered("Image"))]
    /\ UNCHANGED <<env, fs, artifacts, clock, svc, inv, ninv, reported>>

AgentStep(p) ==
    \/ RunStrategy \/ RunTaglines \/ RunVisualBrief
    \/ StartImage(p) \/ FinishImage(p) \/ RunReport

----------------------------------------------------------------------------
(* Specifications *)

Environments == [api_key : ApiKeys, libs : BOOLEAN]

InitWorld ==
    /\ env \in Environments
    /\ fs \in [dir : BOOLEAN, files : {{}}]
    /\ artifacts = {}
    /\ clock = 0
    /\ svc = <<>>
    /\ inv = [p \in Procs |-> IdleFrame]
    /\ ninv = 0
    /\ reported = {}

\* the tool called at will, one call after another
Init ==
    /\ InitWorld
    /\ run = FreeRun

Next ==
    \/ \E p \in Procs : Invoke(p) \/ ToolStep(p) \/ ServiceStep(p) \/ Return(p)
    \/ Tick

Spec == Init /\ [][Next]_vars

\* one call with the libraries and the key in place, for every length of brief
InvokeAnyLength(p) ==
    /\ inv[p].pc = "idle"
    /\ ninv = 0
    /\ \E b \in 0..MaxBriefLen, x \in 0..MaxExtraLen :
          inv' = [inv EXCEPT ![p] = [IdleFrame EXCEPT !.pc = "import", !.id = ninv + 1,
                                        !.visual_brief = Piece("VisualBrief", b),
                                        !.image_prompt = Piece("image_prompt", x)]]
    /\ ninv' = ninv + 1
    /\ UNCHANGED <<env, fs, artifacts, clock, svc, reported, run>>

InitPrompt ==
    /\ Init
    /\ env = [api_key |-> "key", libs |-> TRUE]
    /\ fs.dir

NextPrompt ==
    \E p \in Procs :
        \/ InvokeAnyLength(p) \/ Import(p) \/ GetKey(p) \/ NewClient(p)
        \/ Compose(p) \/ Truncate(p) \/ CallService(p)

SpecPrompt == InitPrompt /\ [][NextPrompt]_vars

\* one run of the five steps for a campaign brief
InitPipeline ==
    /\ InitWorld
    /\ \E b \in CampaignBriefs : run = [FreeRun EXCEPT !.stage = "Strategy", !.brief = b]

ProgramStep == \E p \in Procs : AgentStep(p) \/ ToolStep(p)

NextPipeline == ProgramStep \/ \E p \in Procs : ServiceStep(p)

\* the agent and the tool keep stepping; nothing makes the image service answer
SpecPipeline == InitPipeline /\ [][NextPipeline]_vars /\ WF_vars(ProgramStep)

----------------------------------------------------------------------------
(* Properties *)

Returned(p) == inv[p].pc = "returned"
Outcome(p) == Kind(inv[p].result)
\* the files under output/ that hold an image of invocation id
FilesOf(id) == {f \in fs.files : svc[f.image.call].id = id}
CallsOf(id) == {n \in 1..Len(svc) : svc[n].id = id}

\* C1, as amended: with GOOGLE_API_KEY unset or empty an invocation calls the
\* image service never, creates no directory and no file under output/ and
\* registers no artifact; it returns ConfigMissing when the image libraries
\* are importable and ImportMissing when they are not (the imports come first).
C1_AbsentKeyNoSideEffects ==
    ~Truthy(env.api_key) =>
        /\ svc = <<>>
        /\ fs.files = {}
        /\ artifacts = {}
        /\ \A p \in Procs :
              /\ inv[p].events = {}
              /\ inv[p].pc \in {"idle", "import", "getkey", "returned"}
              /\ Returned(p) =>
                    Outcome(p) = IF env.libs THEN "ConfigMissing" ELSE "ImportMissing"

C1_Witness ==
    \E p \in Procs :
        /\ ~Truthy(env.api_key)
        /\ Returned(p)
        /\ inv[p].result = ConfigMissingResult
        /\ inv[p].id = 2

\* C1, as stated: with the key absent the result is ConfigMissing, with no
\* side effect, whatever the state of the other preconditions.
C1_Original ==
    ~Truthy(env.api_key) =>
        /\ svc = <<>> /\ fs.files = {} /\ artifacts = {}
        /\ \A p \in Procs :
              /\ inv[p].events = {}
              /\ Returned(p) => Outcome(p) = "ConfigMissing"

\* C2, as amended: an invocation ends by returning one dictionary, never by an
\* escaping error.  Libraries not importable: ImportMissing, whatever the key.
\* Otherwise key absent: ConfigMissing.  Otherwise an error raised by the
\* service call: SynthesisError carrying the raw text, unless it is an
\* ImportError, which the first except clause turns into ImportMissing.  An
\* empty response: NoImageReturned.  Success carries path, filename,
\* dimensions and size.
C2_OneOutcomePerInvocation ==
    \A p \in Procs :
        /\ inv[p].pc # "escaped"
        /\ Returned(p) =>
              LET r == inv[p].result IN
              /\ r.status \in {"success", "error"}
              /\ ~env.libs => Outcome(p) = "ImportMissing"
              /\ (env.libs /\ ~Truthy(env.api_key)) => Outcome(p) = "ConfigMissing"
              /\ ("service_raised" \in inv[p].events /\ inv[p].raised.cls # "ImportError")
                    => (Outcome(p) = "SynthesisError" /\ r.error = inv[p].raised.text)
              /\ ("service_raised" \in inv[p].events /\ inv[p].raised.cls = "ImportError")
                    => Outcome(p) = "ImportMissing"
              /\ ("service_returned" \in inv[p].events /\ inv[p].response = <<>>)
                    => Outcome(p) = "NoImageReturned"
              /\ Outcome(p) = "Success" =>
                    {"image_path", "image_filename", "dimensions", "file_size_kb"}
                        \subseteq DOMAIN r
              /\ Outcome(p) = "ConfigMissing" => ~Truthy(env.api_key)
              /\ Outcome(p) = "NoImageReturned" => inv[p].response = <<>>

C2_Witness ==
    \E p \in Procs :
        /\ Returned(p)
        /\ "service_raised" \in inv[p].events
        /\ inv[p].raised = [cls |-> "Exception", text |-> "quota exceeded"]
        /\ Outcome(p) = "SynthesisError"
        /\ inv[p].result.error = "quota exceeded"

\* C2, as stated: absent credential -> ConfigMissing, unavailable dependency ->
\* ImportMissing, any error raised during the service call -> SynthesisError
\* with the raw text, empty result set -> NoImageReturned.
C2_Original ==
    \A p \in Procs :
        /\ inv[p].pc # "escaped"
        /\ Returned(p) =>
              /\ ~Truthy(env.api_key) => Outcome(p) = "ConfigMissing"
              /\ ~env.libs => Outcome(p) = "ImportMissing"
              /\ "service_raised" \in inv[p].events
                    => (Outcome(p) = "SynthesisError"
                        /\ inv[p].result.error = inv[p].raised.text)
              /\ ("service_returned" \in inv[p].events /\ inv[p].response = <<>>)
                    => Outcome(p) = "NoImageReturned"

\* C3: the prompt sent to the image service is at most 2000 characters long;
\* when the composed prompt is longer than 2000 characters the sent prompt is
\* its first 1900 characters followed by the closing clause; truncating the
\* sent prompt again leaves it unchanged.
C3_PromptCeiling ==
    \A p \in Procs :
        inv[p].pc \in {"call", "await"} =>
            LET composed == ComposePrompt(inv[p].visual_brief, inv[p].image_prompt)
                sent == inv[p].imagen_prompt
            IN  /\ TextLen(sent) <= PromptCeiling
                /\ TextLen(composed) > PromptCeiling
                      => sent = Take(composed, KeepLen) \o ClosingClause
                /\ TextLen(composed) <= PromptCeiling => sent = composed
                /\ TruncatePrompt(sent) = sent
                /\ inv[p].pc = "await" => svc[CallNo(inv[p])].prompt = sent

C3_Witness ==
    \E p \in Procs :
        /\ inv[p].pc = "await"
        /\ TextLen(inv[p].visual_brief) > PromptCeiling
        /\ inv[p].image_prompt # <<>>
        /\ TextLen(ComposePrompt(inv[p].visual_brief, inv[p].image_prompt)) > PromptCeiling
        /\ TextLen(svc[1].prompt) = KeepLen + ClauseLen

\* C4: when the image service yields no image for an invocation (an empty
\* response, or the call raises) that invocation writes no file under output/.
C4_NoImageNoFile ==
    \A p \in Procs :
        (Returned(p) /\ ("service_raised" \in inv[p].events
                          \/ Outcome(p) = "NoImageReturned"))
            => /\ "file" \notin inv[p].events
               /\ FilesOf(inv[p].id) = {}

C4_Witness ==
    \E p \in Procs :
        /\ Returned(p)
        /\ Outcome(p) = "NoImageReturned"
        /\ fs.files # {}

\* C5: once the image is decoded and written, a failure of the artifact
\* registration does not change the outcome: the dictionary returned is the
\* Success one, with the path, filename, dimensions and size it has when the
\* registration succeeds (reading the file size may still fail on its own).
C5_ArtifactFailureSwallowed ==
    \A p \in Procs :
        (/\ Returned(p)
         /\ inv[p].events \cap {"artifact", "artifact_error"} # {}
         /\ "getsize_error" \notin inv[p].events)
            => \E f \in FileAt(inv[p].image_path) :
                  /\ f.image = inv[p].image
                  /\ inv[p].result = SuccessResult(inv[p].image_path,
                                                   inv[p].image_filename,
                                                   inv[p].image.size, f.image.png)
                  /\ inv[p].result.image_path = ImagePath(inv[p].image_filename)

C5_Witness ==
    \E p \in Procs :
        /\ Returned(p)
        /\ "artifact_error" \in inv[p].events
        /\ Outcome(p) = "Success"
        /\ artifacts = {}

\* the stages started so far
Started == {run.trace[k] : k \in 1..Len(run.trace)}
ReportNonEmpty == run.report.status = "success" /\ run.report.instructions.title # ""
Contains(message, fragment) == \E i \in 1..Len(message) : message[i] = fragment

C7_ReachesDoneUnlessServiceSilent ==
    \/ <>(run.stage = "Done" /\ ReportNonEmpty)
    \/ <>[](\E p \in Procs : inv[p].pc = "await")

C7_Witness ==
    /\ run.stage = "Done"
    /\ ReportNonEmpty
    /\ Kind(run.image_outcome) = "SynthesisError"

\* C7, as stated: every run eventually reaches Done with a non-empty report.
C7_Original == <>(run.stage = "Done" /\ ReportNonEmpty)

C9_AtMostOneCallPerInvocation ==
    /\ \A id \in 1..ninv : Cardinality(CallsOf(id)) <= 1
    /\ \A p \in Procs :
          /\ inv[p].pc \in {"await", "check", "makedirs", "stamp", "open", "save",
                            "artifact", "getsize"} => Cardinality(CallsOf(inv[p].id)) = 1
          /\ (Returned(p) /\ env.libs /\ Truthy(env.api_key)
                          /\ "client_error" \notin inv[p].events)
                => Cardinality(CallsOf(inv[p].id)) = 1
          /\ (Returned(p) /\ Outcome(p) \in {"Success", "NoImageReturned"})
                => Cardinality(CallsOf(inv[p].id)) = 1
    /\ \A r \in reported : CallsOf(r.id) = {r.image.call}

C9_Witness ==
    /\ ninv = 2
    /\ Len(svc) = 2
    /\ svc[1].prompt = svc[2].prompt
    /\ \E r \in reported : r.id = 1
    /\ \E p \in Procs : Returned(p) /\ Outcome(p) = "Success" /\ inv[p].id = 2

\* the wall-clock second an image reported as Success was stamped in
SecondOf(r) == r.stamped \div TicksPerSecond
\* whether the file at the path of r holds the image of r, whole
StillPresent(r) ==
    \E f \in FileAt(r.result.image_path) :
        /\ f.complete
        /\ [call |-> f.image.call, idx |-> f.image.idx] = r.image

EarlyFailures == {"ConfigMissing", "ImportMissing", "NoImageReturned"}
\* whether the invocation in frame f leaves something of its own under output/
LeavesBehind(f) == FilesOf(f.id) # {} \/ "directory" \in f.events

\* C11, as amended: an invocation that returns Success leaves its image,
\* whole, at the path it reports, and one that returns ConfigMissing,
\* ImportMissing or NoImageReturned, or whose call to the image service
\* raised, leaves neither a file nor a new output/ directory.  A failure
\* after os.makedirs is not undone: a decoding, saving or size-reading error
\* returns SynthesisError and leaves the directory, and the file when it was
\* written in part or in whole; a failed artifact registration alone never
\* makes a Failure.
C11_SuccessLeavesFileEarlyFailureNothing ==
    \A p \in Procs :
        Returned(p) =>
            /\ Outcome(p) = "Success" =>
                  /\ fs.dir
                  /\ \E f \in FilesOf(inv[p].id) :
                        /\ f.path = inv[p].result.image_path
                        /\ f.complete
                        /\ f.image = inv[p].image
            /\ (Outcome(p) \in EarlyFailures \/ "service_raised" \in inv[p].events)
                  => ~LeavesBehind(inv[p])
            /\ LeavesBehind(inv[p]) /\ Outcome(p) # "Success" =>
                  /\ Outcome(p) = "SynthesisError"
                  /\ "service_returned" \in inv[p].events
                  /\ inv[p].raised.text \in {OsErrText, DecodeErrText}
                  /\ fs.dir
            /\ ("artifact_error" \in inv[p].events /\ Outcome(p) # "Success")
                  => "getsize_error" \in inv[p].events

\* a failure that leaves both the file and the directory it created
C11_Witness ==
    \E p \in Procs :
        /\ Returned(p)
        /\ Outcome(p) = "SynthesisError"
        /\ "directory" \in inv[p].events
        /\ \E f \in FilesOf(inv[p].id) : f.path = inv[p].image_path /\ f.complete
        /\ "getsize_error" \in inv[p].events

\* C11, as stated: a returned invocation has a file of its own under output/
\* exactly when it returns Success, and a Failure leaves no directory that
\* the invocation created.
C11_Original ==
    \A p \in Procs :
        Returned(p) =>
            /\ (FilesOf(inv[p].id) # {}) <=> (Outcome(p) = "Success")
            /\ Outcome(p) # "Success" => "directory" \notin inv[p].events

\* whether the text part occurs in the text t, whole and in one run
Occurs(t, part) ==
    \E i \in 1..(Len(t) - Len(part) + 1) : SubSeq(t, i, i + Len(part) - 1) = part
\* whether a occurs in t and b occurs whole somewhere after it
FollowedBy(t, a, b) ==
    \E i \in 1..(Len(t) - Len(a) + 1) :
        /\ SubSeq(t, i, i + Len(a) - 1) = a
        /\ Occurs(SubSeq(t, i + Len(a), Len(t)), b)
\* the characters of the first 1900 left after the template's opening lines
RoomAfterHead == KeepLen - HeadLen

\* C12, as amended: the directive block is constant, but it is longer than
\* the ceiling by itself, so the truncation is applied to every prompt and
\* the complete block is never sent.  The sent prompt is always the template's
\* opening lines, then the brief (with the additional details), then as much
\* of the start of the directive block as fits in the first 1900 characters,
\* then the closing clause: a brief of at most 1807 characters (additional
\* details included) is sent in full, a longer one is cut at 1807 characters
\* and no character of the directives is sent.
C12_DirectivesAlwaysCut ==
    \A p \in Procs :
        inv[p].pc \in {"call", "await"} =>
            LET final == FinalPrompt(inv[p].visual_brief, inv[p].image_prompt)
                composed == ComposePrompt(inv[p].visual_brief, inv[p].image_prompt)
                sent == inv[p].imagen_prompt
                len == TextLen(final)
            IN  /\ TextLen(composed) = HeadLen + len + TailLen
                /\ TextLen(composed) > PromptCeiling
                /\ sent # composed
                /\ TextLen(sent) = KeepLen + ClauseLen
                /\ ~Occurs(sent, PromptTail)
                /\ len <= RoomAfterHead =>
                      sent = PromptHead \o final
                                \o Take(PromptTail, RoomAfterHead - len) \o ClosingClause
                /\ len > RoomAfterHead =>
                      /\ sent = PromptHead \o Take(final, RoomAfterHead) \o ClosingClause
                      /\ \A i \in 1..Len(sent) : sent[i].src # "template_directives"
                /\ TextLen(inv[p].visual_brief) <= RoomAfterHead
                      => Occurs(sent, inv[p].visual_brief)
                /\ TextLen(inv[p].visual_brief) > RoomAfterHead
                      => ~Occurs(sent, inv[p].visual_brief)

\* a brief with additional details sent in full, the directives cut short
C12_Witness ==
    \E p \in Procs :
        /\ inv[p].pc = "await"
        /\ TextLen(inv[p].visual_brief) \in 1..100
        /\ inv[p].image_prompt # <<>>
        /\ Occurs(svc[1].prompt, inv[p].visual_brief \o DetailsSep \o inv[p].image_prompt)
        /\ \E i \in 1..Len(svc[1].prompt) :
              /\ svc[1].prompt[i].src = "template_directives"
              /\ svc[1].prompt[i].hi < TailLen

\* C12, as stated: for every visual_brief and image_prompt the sent prompt
\* holds the visual brief in full, followed by the complete directive block,
\* and a brief shorter than the ceiling is sent untruncated.
C12_Original ==
    \A p \in Procs :
        inv[p].pc \in {"call", "await"} =>
            /\ FollowedBy(inv[p].imagen_prompt, inv[p].visual_brief, PromptTail)
            /\ TextLen(inv[p].visual_brief) < PromptCeiling
                  => inv[p].imagen_prompt
                        = ComposePrompt(inv[p].visual_brief, inv[p].image_prompt)

====
